---- MODULE Spec2Model ----
(***************************************************************************)
(* A model of the Mal interpreter of yamajik/mal: the evaluator of the     *)
(* current revision (src/unnamed/part_001), the evaluator of the earlier   *)
(* revision (src/unnamed/part_000), and the read-eval-print session that   *)
(* drives them.  Terms are records of one shape; environments and          *)
(* functions are heap objects held in a store that every operator threads. *)
(***************************************************************************)
EXTENDS Integers, Sequences, FiniteSets, TLC

VARIABLES rev, script, form, pre, st, out, hist, heap, eq

vars == <<rev, script, form, pre, st, out, hist, heap, eq>>

(***************************************************************************)
(* Terms (class MalType and its subclasses).  Every term has the same four *)
(* fields: the class tag t, a string payload s, an integer payload n and   *)
(* the element sequence xs.                                                *)
(***************************************************************************)
Mk(t, s, n, xs) == [t |-> t, s |-> s, n |-> n, xs |-> xs]

MalNil == Mk("nil", "", 0, <<>>)

MalBoolean(b) == Mk("bool", IF b THEN "true" ELSE "false", 0, <<>>)

MalNumber(k) == Mk("num", "", k, <<>>)

MalString(s) == Mk("str", s, 0, <<>>)

MalKeyword(s) == Mk("key", s, 0, <<>>)

MalSymbol(name) == Mk("sym", name, 0, <<>>)

MalList(xs) == Mk("list", "", 0, xs)

MalVector(xs) == Mk("vec", "", 0, xs)

\* A hash map is its key/value sequence k1 v1 k2 v2 ...
MalHashMap(kvs) == Mk("map", "", 0, kvs)

\* A MalFunction is a reference to the function object st.fns[id].
MalFunction(id) == Mk("fn", "", id, <<>>)

MalNativeFunction(name) == Mk("native", name, 0, <<>>)

\* A MalError wraps a term and carries the trace pushAst appends to.
MalError(v, trace) == Mk("err", "", 0, <<v>> \o trace)

ErrorValue(e) == e.xs[1]

ErrorTrace(e) == Tail(e.xs)

pushAst(e, ast) == [e EXCEPT !.xs = @ \o <<ast>>]

\* A host value that is thrown but is no MalError (throw false, throw "...").
HostThrow(s) == Mk("host", s, 0, <<>>)

isMalList(x) == x.t = "list"

isMalVector(x) == x.t = "vec"

isMalSequential(x) == x.t \in {"list", "vec"}

isMalHashMap(x) == x.t = "map"

isMalSymbol(x) == x.t = "sym"

isMalFunction(x) == x.t = "fn"

isMalNativeFunction(x) == x.t = "native"

isMalError(x) == x.t = "err"

isMalFalse(x) == x.t = "bool" /\ x.s = "false"

isPositive(x) == ~(isMalFalse(x) \/ x.t = "nil")

isRestMalSymbol(x) == isMalSymbol(x) /\ x.s = "&"

isMalSymbolCatch(x) == isMalSymbol(x) /\ x.s = "catch*"

\* The errors of ./errors, each a MalError wrapping the name of its kind.
MalParametersError == MalError(MalString("MalParametersError"), <<>>)

MalMultipleParametersError == MalError(MalString("MalMultipleParametersError"), <<>>)

MalUnexpectedTokenType == MalError(MalString("MalUnexpectedTokenType"), <<>>)

MalUnexpectedLength == MalError(MalString("MalUnexpectedLength"), <<>>)

MalInvalidRestParameter == MalError(MalString("MalInvalidRestParameter"), <<>>)

MalUnboundSymbol == MalError(MalString("MalUnboundSymbol"), <<>>)

(***************************************************************************)
(* The store.  envs and fns are the heap; the remaining fields observe one *)
(* evaluation: log has one entry per pass through the head of an           *)
(* evaluator loop (the debugPrint(ast) of part_001), calls has one entry   *)
(* per EVAL invocation (its caller, the ast and env it was called with,    *)
(* and what it returned or threw), depth counts the active EVAL            *)
(* invocations, cur is the running                                         *)
(* invocation, raised the invocation in which the latest error was thrown, *)
(* and macroApplied counts general applications of a Function whose        *)
(* isMacro is set.                                                         *)
(***************************************************************************)
RootEnv == 1

EmptyStore ==
    [envs |-> <<[outer |-> 0, data |-> <<>>]>>, fns |-> <<>>, log |-> <<>>,
     calls |-> <<>>, depth |-> 0, maxDepth |-> 0, cur |-> 0, raised |-> 0,
     macroApplied |-> 0]

\* The results of every evaluator operator: a value or a thrown error, the
\* store after it, and for one pass of the evaluator's loop whether the
\* loop continues (cont) with v as its ast, in which environment.
Ret(s, v) == [st |-> s, ok |-> TRUE, v |-> v, env |-> 0, cont |-> FALSE]

RetEnv(s, v, env) == [st |-> s, ok |-> TRUE, v |-> v, env |-> env, cont |-> FALSE]

Throw(s, e) ==
    [st |-> [s EXCEPT !.raised = s.cur], ok |-> FALSE, v |-> e, env |-> 0, cont |-> FALSE]

(***************************************************************************)
(* class MalEnv (./env).                                                   *)
(***************************************************************************)
MapSet(data, k, v) == [x \in (DOMAIN data) \cup {k} |-> IF x = k THEN v ELSE data[x]]

RECURSIVE MalEnv_find(_, _, _)
MalEnv_find(s, e, k) ==
    IF e = 0 THEN 0
    ELSE IF k \in DOMAIN s.envs[e].data THEN e
    ELSE MalEnv_find(s, s.envs[e].outer, k)

MalEnv_has(s, e, k) == MalEnv_find(s, e, k) # 0

MalEnv_get(s, e, k) ==
    LET f == MalEnv_find(s, e, k)
    IN  IF f = 0 THEN Throw(s, MalUnboundSymbol) ELSE Ret(s, s.envs[f].data[k])

MalEnv_set(s, e, k, v) == [s EXCEPT !.envs[e].data = MapSet(@, k, v)]

\* Parameter binding: positional parameters, then & rest.
RECURSIVE MalEnv_bind(_, _, _)
MalEnv_bind(data, binds, exprs) ==
    IF binds = <<>> THEN [ok |-> exprs = <<>>, data |-> data]
    ELSE IF isRestMalSymbol(Head(binds))
         THEN IF Len(binds) = 2
              THEN [ok |-> TRUE, data |-> MapSet(data, binds[2].s, MalList(exprs))]
              ELSE [ok |-> FALSE, data |-> data]
    ELSE IF exprs = <<>> THEN [ok |-> FALSE, data |-> data]
    ELSE MalEnv_bind(MapSet(data, Head(binds).s, Head(exprs)), Tail(binds), Tail(exprs))

\* new MalEnv(outer) and new MalEnv(outer, binds, exprs): the result's env is
\* the new frame.
MalEnv_new(s, outer, binds, exprs) ==
    LET b == MalEnv_bind(<<>>, binds, exprs)
        id == Len(s.envs) + 1
    IN  IF ~b.ok THEN Throw(s, MalParametersError)
        ELSE RetEnv([s EXCEPT !.envs = Append(@, [outer |-> outer, data |-> b.data])],
                    MalNil, id)

(***************************************************************************)
(* The names of enum Symbols (./types).                                    *)
(***************************************************************************)
Symbols ==
    [Def |-> "def!", Let |-> "let*", Do |-> "do", If |-> "if", Fn |-> "fn*",
     Eval |-> "eval", Quote |-> "quote", Quasiquote |-> "quasiquote",
     Unquote |-> "unquote", SpliceUnquote |-> "splice-unquote",
     Defmacro |-> "defmacro!", Macroexpand |-> "macroexpand", Try |-> "try*",
     Catch |-> "catch*", Concat |-> "concat", Cons |-> "cons"]

(***************************************************************************)
(* The built-in table (./core): the four natives the inputs use.           *)
(***************************************************************************)
CoreNames == {"list", "cons", "concat", "throw"}

RECURSIVE Flatten(_)
Flatten(seqs) == IF seqs = <<>> THEN <<>> ELSE Head(seqs).xs \o Flatten(Tail(seqs))

core(name, params, s) ==
    CASE name = "list" -> Ret(s, MalList(params))
      [] name = "cons" ->
            IF Len(params) # 2 THEN Throw(s, MalParametersError)
            ELSE IF ~isMalSequential(params[2]) THEN Throw(s, MalUnexpectedTokenType)
            ELSE Ret(s, MalList(<<params[1]>> \o params[2].xs))
      [] name = "concat" ->
            IF \E i \in 1..Len(params) : ~isMalSequential(params[i])
            THEN Throw(s, MalUnexpectedTokenType)
            ELSE Ret(s, MalList(Flatten(params)))
      [] name = "throw" ->
            IF Len(params) # 1 THEN Throw(s, MalParametersError)
            ELSE Throw(s, MalError(params[1], <<>>))
      [] OTHER -> Throw(s, HostThrow("is not callable"))

(***************************************************************************)
(* The evaluator of src/unnamed/part_001.                                  *)
(***************************************************************************)
debugPrint(s, ast, env) ==
    [s EXCEPT !.log = Append(@, [ast |-> ast, env |-> env, inv |-> s.cur])]

\* Entering and leaving a host-level invocation of EVAL.
Enter(s, ast, env) ==
    [s EXCEPT !.calls = Append(@, [up |-> s.cur, ast |-> ast, env |-> env,
                                   done |-> FALSE, ok |-> FALSE, v |-> MalNil]),
              !.cur = Len(s.calls) + 1,
              !.depth = @ + 1,
              !.maxDepth = IF s.depth + 1 > @ THEN s.depth + 1 ELSE @]

Leave(s, caller, ok, v) ==
    [s EXCEPT !.calls[s.cur] = [@ EXCEPT !.done = TRUE, !.ok = ok, !.v = v],
              !.cur = caller, !.depth = @ - 1]

\* checkMalBindings' loop, from index down to 1 (the source counts from 0).
RECURSIVE checkBindingsFrom(_, _)
checkBindingsFrom(bindings, index) ==
    IF index < 1 THEN MalNil
    ELSE IF ~isMalSymbol(bindings[index]) THEN MalUnexpectedTokenType
    ELSE IF isRestMalSymbol(bindings[index]) /\ index # Len(bindings) - 1
         THEN MalInvalidRestParameter
    ELSE checkBindingsFrom(bindings, index - 1)

\* checkMalBindings without the test of the rest marker's index.
checkMalBindings_anyRest(bindings) ==
    IF ~isMalSequential(bindings) THEN MalUnexpectedTokenType
    ELSE IF \E i \in 1..Len(bindings.xs) : ~isMalSymbol(bindings.xs[i])
         THEN MalUnexpectedTokenType
    ELSE MalNil

\* The error checkMalBindings throws, or MalNil when it throws none.
checkMalBindings(bindings) ==
    IF ~isMalSequential(bindings) THEN MalUnexpectedTokenType
    ELSE checkBindingsFrom(bindings.xs, Len(bindings.xs))

FN(env, args, s) ==
    IF Len(args) # 2 THEN Throw(s, MalParametersError)
    ELSE IF checkMalBindings(args[1]) # MalNil THEN Throw(s, checkMalBindings(args[1]))
    ELSE Ret([s EXCEPT !.fns = Append(@, [ast |-> args[2], params |-> args[1],
                                          env |-> env, isMacro |-> FALSE])],
             MalFunction(Len(s.fns) + 1))

QUOTE(env, args, s) ==
    IF Len(args) # 1 THEN Throw(s, MalParametersError)
    ELSE Ret(s, args[1])

RECURSIVE EVAL(_, _, _), EVAL_NOT_CATCH(_, _, _), EVAL_AST(_, _, _)
RECURSIVE EvalItems(_, _, _, _), EvalValues(_, _, _, _)
RECURSIVE DEF_FORM(_, _, _), LET_FORM(_, _, _), LetBindings(_, _, _)
RECURSIVE DO(_, _, _), IF_FORM(_, _, _), EVALFUNC(_, _, _)
RECURSIVE QUASIQUOTE(_, _, _), DEFMACRO(_, _, _), MACROEXPAND(_, _, _)
RECURSIVE MacroexpandLoop(_, _, _), TRY(_, _, _), APPLY(_, _, _)
RECURSIVE FnCall(_, _, _), call(_, _, _), Dispatch(_, _, _), Pass(_, _, _)

isMacroFunction(env, ast, s) ==
    IF ~isMalList(ast) \/ Len(ast.xs) < 1 THEN FALSE
    ELSE IF ~isMalSymbol(Head(ast.xs)) THEN FALSE
    ELSE IF ~MalEnv_has(s, env, Head(ast.xs).s) THEN FALSE
    ELSE IF ~isMalFunction(MalEnv_get(s, env, Head(ast.xs).s).v) THEN FALSE
    ELSE s.fns[MalEnv_get(s, env, Head(ast.xs).s).v.n].isMacro

\* Binding: CHOOSE one \in {e : r \in {x}} : TRUE is e with r bound to the
\* value of x, computed once however often e reads r.
\* The closure FN builds: (...fnArgs) => EVAL(ast, new MalEnv(env, bindings, fnArgs)).
FnCall(func, fnArgs, s) ==
    CHOOSE one \in {IF ~b.ok THEN b ELSE EVAL(s.fns[func.n].ast, b.env, b.st) :
            b \in {MalEnv_new(s, s.fns[func.n].env, s.fns[func.n].params.xs, fnArgs)}} : TRUE

\* func.call(...params): a native, a MalFunction's closure, or MalType.call.
call(func, params, s) ==
    IF isMalNativeFunction(func) THEN core(func.s, params, s)
    ELSE IF isMalFunction(func) THEN FnCall(func, params, s)
    ELSE Throw(s, HostThrow("is not callable"))

\* ast.map(item => EVAL(item, env)), left to right, stopping at a throw.
EvalItems(items, env, s, acc) ==
    IF items = <<>> THEN Ret(s, acc)
    ELSE CHOOSE one \in {IF ~r.ok THEN r ELSE EvalItems(Tail(items), env, r.st, Append(acc, r.v)) :
                r \in {EVAL(Head(items), env, s)}} : TRUE

\* The values of a hash map's key/value sequence, the keys copied.
EvalValues(kvs, env, s, acc) ==
    IF Len(kvs) < 2 THEN Ret(s, acc)
    ELSE CHOOSE one \in {IF ~r.ok THEN r
              ELSE EvalValues(Tail(Tail(kvs)), env, r.st, acc \o <<kvs[1], r.v>>) :
                r \in {EVAL(kvs[2], env, s)}} : TRUE

EVAL_AST(ast, env, s) ==
    CASE isMalSymbol(ast) -> MalEnv_get(s, env, ast.s)
      [] isMalList(ast) ->
            CHOOSE one \in {IF ~r.ok THEN r ELSE Ret(r.st, MalList(r.v)) :
                    r \in {EvalItems(ast.xs, env, s, <<>>)}} : TRUE
      [] isMalVector(ast) ->
            CHOOSE one \in {IF ~r.ok THEN r ELSE Ret(r.st, MalVector(r.v)) :
                    r \in {EvalItems(ast.xs, env, s, <<>>)}} : TRUE
      [] isMalHashMap(ast) ->
            CHOOSE one \in {IF ~r.ok THEN r ELSE Ret(r.st, MalHashMap(r.v)) :
                    r \in {EvalValues(ast.xs, env, s, <<>>)}} : TRUE
      [] OTHER -> Ret(s, ast)

\* What EVAL rethrows: a MalError with EVAL's own ast pushed, anything else
\* as it is.
Rethrown(r, ast) == IF ~r.ok /\ isMalError(r.v) THEN pushAst(r.v, ast) ELSE r.v

EVAL(ast, env, s) ==
    CHOOSE one \in {[r EXCEPT !.st = Leave(r.st, s.cur, r.ok, Rethrown(r, ast)),
                   !.v = Rethrown(r, ast)] :
            r \in {EVAL_NOT_CATCH(ast, env, Enter(s, ast, env))}} : TRUE

\* The loop body after the macro expansion: the two early returns and the
\* switch on the head symbol.  Where the source assigns ast (and env) and
\* continues the loop, the result has cont set.
Dispatch(ast, env, s) ==
    LET args == Tail(ast.xs)
        sf == IF isMalSymbol(Head(ast.xs)) THEN Head(ast.xs).s ELSE ""
    IN  CASE ~isMalSequential(ast) -> EVAL_AST(ast, env, s)
          [] Len(ast.xs) <= 0 -> Ret(s, MalNil)
          [] sf = Symbols.Def -> DEF_FORM(env, args, s)
          [] sf = Symbols.Let -> [LET_FORM(env, args, s) EXCEPT !.cont = TRUE]
          [] sf = Symbols.Do -> [DO(env, args, s) EXCEPT !.cont = TRUE, !.env = env]
          [] sf = Symbols.If -> [IF_FORM(env, args, s) EXCEPT !.cont = TRUE, !.env = env]
          [] sf = Symbols.Fn -> FN(env, args, s)
          [] sf = Symbols.Eval ->
                [EVALFUNC(env, args, s) EXCEPT !.cont = TRUE, !.env = env]
          [] sf = Symbols.Quote -> QUOTE(env, args, s)
          [] sf = Symbols.Quasiquote ->
                [QUASIQUOTE(env, args, s) EXCEPT !.cont = TRUE, !.env = env]
          [] sf = Symbols.Defmacro -> DEFMACRO(env, args, s)
          [] sf = Symbols.Macroexpand ->
                [MACROEXPAND(env, args, s) EXCEPT !.cont = TRUE, !.env = env]
          [] sf = Symbols.Try -> TRY(env, args, s)
          [] OTHER -> APPLY(ast, env, s)

\* One pass through the body of the while (true) loop.  MACROEXPAND returns
\* ast itself when its head names no macro.
Pass(ast, env, s0) ==
    CHOOSE one \in {CASE ~isMalList(ast) -> EVAL_AST(ast, env, s)
           [] ~isMacroFunction(env, ast, s) -> Dispatch(ast, env, s)
           [] OTHER ->
                CHOOSE one \in {IF ~m.ok THEN m ELSE Dispatch(m.v, env, m.st) :
                        m \in {MACROEXPAND(env, <<ast>>, s)}} : TRUE :
            s \in {debugPrint(s0, ast, env)}} : TRUE

\* The loop: passes until one returns or throws.
EVAL_NOT_CATCH(ast, env, s) ==
    CHOOSE one \in {IF p.ok /\ p.cont THEN EVAL_NOT_CATCH(p.v, p.env, p.st)
         ELSE [p EXCEPT !.cont = FALSE] :
            p \in {Pass(ast, env, s)}} : TRUE

\* The application with the new frame on GlobalEnv, whatever env the
\* function holds.
ApplyFunction_onRoot(func, params, s) ==
    CHOOSE one \in {IF ~b.ok THEN b
         ELSE [st |-> b.st, ok |-> TRUE, v |-> s.fns[func.n].ast, env |-> b.env,
               cont |-> TRUE] :
            b \in {MalEnv_new(s, RootEnv, s.fns[func.n].params.xs, params)}} : TRUE

\* The application of a MalFunction at the end of the loop: env becomes a
\* new frame on the function's env, ast the function's body, and the loop
\* continues.
ApplyFunction(func, params, s) ==
    CHOOSE one \in {IF ~b.ok THEN b
         ELSE [st |-> [b.st EXCEPT !.macroApplied =
                                      IF s.fns[func.n].isMacro THEN @ + 1 ELSE @],
               ok |-> TRUE, v |-> s.fns[func.n].ast, env |-> b.env, cont |-> TRUE] :
            b \in {MalEnv_new(s, s.fns[func.n].env, s.fns[func.n].params.xs, params)}} : TRUE

\* General application, lines 151-159 of EVAL_NOT_CATCH.
APPLY(ast, env, s) ==
    CHOOSE one \in {IF ~result.ok THEN result
         ELSE IF ~isMalList(result.v) THEN Throw(result.st, MalUnexpectedTokenType)
         ELSE IF isMalFunction(Head(result.v.xs))
              THEN ApplyFunction(Head(result.v.xs), Tail(result.v.xs), result.st)
         ELSE call(Head(result.v.xs), Tail(result.v.xs), result.st) :
            result \in {EVAL_AST(ast, env, s)}} : TRUE

DEF_FORM(env, args, s) ==
    IF Len(args) # 2 THEN Throw(s, MalParametersError)
    ELSE IF ~isMalSymbol(args[1]) THEN Throw(s, MalUnexpectedTokenType)
    ELSE CHOOSE one \in {IF ~r.ok THEN r ELSE Ret(MalEnv_set(r.st, env, args[1].s, r.v), r.v) :
                r \in {EVAL(args[2], env, s)}} : TRUE

\* The loop over bindings.group(2) of LET.
LetBindings(pairs, newEnv, s) ==
    IF pairs = <<>> THEN Ret(s, MalNil)
    ELSE IF ~isMalSymbol(pairs[1]) THEN Throw(s, MalUnexpectedTokenType)
    ELSE CHOOSE one \in {IF ~r.ok THEN r
              ELSE LetBindings(Tail(Tail(pairs)), newEnv,
                               MalEnv_set(r.st, newEnv, pairs[1].s, r.v)) :
                r \in {EVAL(pairs[2], newEnv, s)}} : TRUE

\* LET without its child frame: the bindings are evaluated and made in env.
LET_inEnv(env, args, s) ==
    IF Len(args) # 2 THEN Throw(s, MalParametersError)
    ELSE IF ~isMalSequential(args[1]) THEN Throw(s, MalUnexpectedTokenType)
    ELSE IF Len(args[1].xs) % 2 # 0 THEN Throw(s, MalUnexpectedLength)
    ELSE CHOOSE one \in {IF ~r.ok THEN r ELSE RetEnv(r.st, args[2], env) :
                            r \in {LetBindings(args[1].xs, env, s)}} : TRUE

LET_FORM(env, args, s) ==
    IF Len(args) # 2 THEN Throw(s, MalParametersError)
    ELSE IF ~isMalSequential(args[1]) THEN Throw(s, MalUnexpectedTokenType)
    ELSE CHOOSE one \in {IF Len(args[1].xs) % 2 # 0 THEN Throw(n.st, MalUnexpectedLength)
              ELSE CHOOSE one \in {IF ~r.ok THEN r ELSE RetEnv(r.st, args[2], n.env) :
                          r \in {LetBindings(args[1].xs, n.env, n.st)}} : TRUE :
                n \in {MalEnv_new(s, env, <<>>, <<>>)}} : TRUE

\* EVAL_AST of the MalList of args is the map of EVAL over args.
DO(env, args, s) ==
    IF Len(args) < 1 THEN Throw(s, MalMultipleParametersError)
    ELSE CHOOSE one \in {IF ~results.ok THEN results
              ELSE Ret(results.st, results.v[Len(results.v)]) :
                results \in {EvalItems(args, env, s, <<>>)}} : TRUE

IF_FORM(env, args0, s) ==
    LET args == IF Len(args0) = 2 THEN Append(args0, MalNil) ELSE args0
    IN  IF Len(args) # 3 THEN Throw(s, MalParametersError)
        ELSE CHOOSE one \in {IF ~result.ok THEN result
                  ELSE Ret(result.st, IF isPositive(result.v) THEN args[2] ELSE args[3]) :
                    result \in {EVAL(args[1], env, s)}} : TRUE

EVALFUNC(env, args, s) ==
    IF Len(args) # 1 THEN Throw(s, MalParametersError)
    ELSE EVAL(args[1], env, s)

\* QUASIQUOTE once its argument count is checked.
Quasi(ast, s) ==
    IF ~isMalList(ast) \/ Len(ast.xs) < 1
    THEN Ret(s, MalList(<<MalSymbol(Symbols.Quote), ast>>))
    ELSE IF Head(ast.xs) = MalSymbol(Symbols.Unquote)
         THEN IF Len(Tail(ast.xs)) # 1 THEN Throw(s, MalParametersError)
              ELSE Ret(s, ast.xs[2])
    ELSE IF isMalList(Head(ast.xs)) /\ Len(Head(ast.xs).xs) > 0
            /\ Head(Head(ast.xs).xs) = MalSymbol(Symbols.SpliceUnquote)
         THEN IF Len(Tail(Head(ast.xs).xs)) # 1 THEN Throw(s, MalParametersError)
              ELSE CHOOSE one \in {IF ~q.ok THEN q
                        ELSE Ret(s, MalList(<<MalSymbol(Symbols.Concat),
                                              Head(ast.xs).xs[2], q.v>>)) :
                          q \in {QUASIQUOTE(0, <<MalList(Tail(ast.xs))>>, s)}} : TRUE
    ELSE CHOOSE one \in {IF ~q1.ok THEN q1
              ELSE CHOOSE one \in {IF ~q2.ok THEN q2
                        ELSE Ret(s, MalList(<<MalSymbol(Symbols.Cons), q1.v, q2.v>>)) :
                          q2 \in {QUASIQUOTE(0, <<MalList(Tail(ast.xs))>>, s)}} : TRUE :
                q1 \in {QUASIQUOTE(0, <<Head(ast.xs)>>, s)}} : TRUE

QUASIQUOTE(env, args, s) ==
    IF Len(args) # 1 THEN Throw(s, MalParametersError)
    ELSE Quasi(args[1], s)

DEFMACRO(env, args, s) ==
    IF Len(args) # 2 THEN Throw(s, MalParametersError)
    ELSE IF ~isMalSymbol(args[1]) THEN Throw(s, MalUnexpectedTokenType)
    ELSE CHOOSE one \in {IF ~func.ok THEN func
              ELSE IF ~isMalFunction(func.v) THEN Throw(func.st, MalUnexpectedTokenType)
              ELSE Ret(MalEnv_set([func.st EXCEPT !.fns[func.v.n].isMacro = TRUE],
                                  env, args[1].s, func.v),
                       func.v) :
                func \in {EVAL(args[2], env, s)}} : TRUE

\* The while loop of MACROEXPAND.
MacroexpandLoop(env, ast, s) ==
    IF ~isMacroFunction(env, ast, s) THEN Ret(s, ast)
    ELSE CHOOSE one \in {IF ~r.ok THEN r ELSE MacroexpandLoop(env, r.v, r.st) :
                r \in {call(MalEnv_get(s, env, Head(ast.xs).s).v, Tail(ast.xs), s)}} : TRUE

MACROEXPAND(env, args, s) ==
    IF Len(args) # 1 THEN Throw(s, MalParametersError)
    ELSE MacroexpandLoop(env, args[1], s)

\* The value checkCatchAst throws, or MalNil when it throws none.
checkCatchAst(instance) ==
    IF ~isMalList(instance) THEN HostThrow("false")
    ELSE IF Len(instance.xs) < 1 \/ ~isMalSymbolCatch(Head(instance.xs))
         THEN HostThrow("false")
    ELSE IF Len(Tail(instance.xs)) # 2 THEN MalParametersError
    ELSE IF ~isMalSymbol(instance.xs[2]) THEN MalUnexpectedTokenType
    ELSE MalNil

\* The catch block of TRY: errorSymbol bound to the caught error in a new
\* frame on env, and errorAst evaluated there.
Catch(env, catchAst, error, s) ==
    CHOOSE one \in {IF ~n.ok THEN n ELSE EVAL(catchAst.xs[3], n.env, n.st) :
            n \in {MalEnv_new(s, env, <<catchAst.xs[2]>>, <<error>>)}} : TRUE

TRY(env, args, s) ==
    IF Len(args) # 2 THEN Throw(s, MalParametersError)
    ELSE IF checkCatchAst(args[2]) # MalNil THEN Throw(s, checkCatchAst(args[2]))
    ELSE CHOOSE one \in {IF r.ok THEN r ELSE Catch(env, args[2], r.v, r.st) :
                r \in {EVAL(args[1], env, s)}} : TRUE

(***************************************************************************)
(* The evaluator of the earlier revision, src/unnamed/part_000: EVAL is    *)
(* itself the loop, there is no macro expansion, no error trace and no     *)
(* debugPrint (the head of its loop is observed in log all the same), and  *)
(* LET, DO and IF hand the loop a value they have already evaluated.       *)
(***************************************************************************)
RECURSIVE EVAL_p0(_, _, _), Loop_p0(_, _, _), EVAL_AST_p0(_, _, _)
RECURSIVE EvalItems_p0(_, _, _, _), EvalValues_p0(_, _, _, _)
RECURSIVE DEF_p0(_, _, _), LET_p0(_, _, _), LetBindings_p0(_, _, _)
RECURSIVE DO_p0(_, _, _), IF_p0(_, _, _), APPLY_p0(_, _, _), DoArgs_p0(_, _, _, _)
RECURSIVE Pass_p0(_, _, _), Dispatch_p0(_, _, _)

EvalItems_p0(items, env, s, acc) ==
    IF items = <<>> THEN Ret(s, acc)
    ELSE CHOOSE one \in {IF ~r.ok THEN r
              ELSE EvalItems_p0(Tail(items), env, r.st, Append(acc, r.v)) :
                r \in {EVAL_p0(Head(items), env, s)}} : TRUE

EvalValues_p0(kvs, env, s, acc) ==
    IF Len(kvs) < 2 THEN Ret(s, acc)
    ELSE CHOOSE one \in {IF ~r.ok THEN r
              ELSE EvalValues_p0(Tail(Tail(kvs)), env, r.st, acc \o <<kvs[1], r.v>>) :
                r \in {EVAL_p0(kvs[2], env, s)}} : TRUE

EVAL_AST_p0(ast, env, s) ==
    CASE isMalSymbol(ast) -> MalEnv_get(s, env, ast.s)
      [] isMalList(ast) ->
            CHOOSE one \in {IF ~r.ok THEN r ELSE Ret(r.st, MalList(r.v)) :
                    r \in {EvalItems_p0(ast.xs, env, s, <<>>)}} : TRUE
      [] isMalVector(ast) ->
            CHOOSE one \in {IF ~r.ok THEN r ELSE Ret(r.st, MalVector(r.v)) :
                    r \in {EvalItems_p0(ast.xs, env, s, <<>>)}} : TRUE
      [] isMalHashMap(ast) ->
            CHOOSE one \in {IF ~r.ok THEN r ELSE Ret(r.st, MalHashMap(r.v)) :
                    r \in {EvalValues_p0(ast.xs, env, s, <<>>)}} : TRUE
      [] OTHER -> Ret(s, ast)

FN_p0(env, args, s) ==
    IF Len(args) # 2 THEN Throw(s, MalParametersError)
    ELSE IF ~isMalVector(args[1]) THEN Throw(s, MalUnexpectedTokenType)
    ELSE IF \E i \in 1..Len(args[1].xs) : ~isMalSymbol(args[1].xs[i])
         THEN Throw(s, MalUnexpectedTokenType)
    ELSE Ret([s EXCEPT !.fns = Append(@, [ast |-> args[2], params |-> args[1],
                                          env |-> env, isMacro |-> FALSE])],
             MalFunction(Len(s.fns) + 1))

\* An invocation of part_000's EVAL: the host frame around its loop.
EVAL_p0(ast, env, s) ==
    CHOOSE one \in {[r EXCEPT !.st = Leave(r.st, s.cur, r.ok, r.v)] :
            r \in {Loop_p0(ast, env, Enter(s, ast, env))}} : TRUE

\* The switch of part_000's EVAL.
Dispatch_p0(ast, env, s) ==
    LET args == Tail(ast.xs)
        sf == Head(ast.xs).s
    IN  CASE sf = Symbols.Def -> DEF_p0(env, args, s)
          [] sf = Symbols.Let -> [LET_p0(env, args, s) EXCEPT !.cont = TRUE, !.env = env]
          [] sf = Symbols.Do -> [DO_p0(env, args, s) EXCEPT !.cont = TRUE, !.env = env]
          [] sf = Symbols.If -> [IF_p0(env, args, s) EXCEPT !.cont = TRUE, !.env = env]
          [] sf = Symbols.Fn -> FN_p0(env, args, s)
          [] OTHER -> APPLY_p0(ast, env, s)

\* One pass through the body of the loop of part_000's EVAL.
Pass_p0(ast, env, s0) ==
    CHOOSE one \in {CASE ~isMalList(ast) -> EVAL_AST_p0(ast, env, s)
           [] Len(ast.xs) <= 0 -> Ret(s, MalNil)
           [] ~isMalSymbol(Head(ast.xs)) -> Throw(s, MalUnexpectedTokenType)
           [] OTHER -> Dispatch_p0(ast, env, s) :
            s \in {debugPrint(s0, ast, env)}} : TRUE

\* The loop of part_000's EVAL.
Loop_p0(ast, env, s) ==
    CHOOSE one \in {IF p.ok /\ p.cont THEN Loop_p0(p.v, p.env, p.st)
         ELSE [p EXCEPT !.cont = FALSE] :
            p \in {Pass_p0(ast, env, s)}} : TRUE

ApplyFunction_p0(func, params, s) ==
    CHOOSE one \in {IF ~b.ok THEN b
         ELSE [st |-> b.st, ok |-> TRUE, v |-> s.fns[func.n].ast, env |-> b.env,
               cont |-> TRUE] :
            b \in {MalEnv_new(s, s.fns[func.n].env, s.fns[func.n].params.xs, params)}} : TRUE

\* The default case of part_000's switch.
APPLY_p0(ast, env, s) ==
    CHOOSE one \in {IF ~result.ok THEN result
         ELSE IF ~isMalList(result.v) THEN Throw(result.st, MalUnexpectedTokenType)
         ELSE IF isMalFunction(Head(result.v.xs))
              THEN ApplyFunction_p0(Head(result.v.xs), Tail(result.v.xs), result.st)
         ELSE IF isMalNativeFunction(Head(result.v.xs))
              THEN core(Head(result.v.xs).s, Tail(result.v.xs), result.st)
         ELSE Throw(result.st, HostThrow("is not callable")) :
            result \in {EVAL_AST_p0(ast, env, s)}} : TRUE

DEF_p0(env, args, s) ==
    IF Len(args) # 2 THEN Throw(s, MalParametersError)
    ELSE IF ~isMalSymbol(args[1]) THEN Throw(s, MalUnexpectedTokenType)
    ELSE CHOOSE one \in {IF ~r.ok THEN r ELSE Ret(MalEnv_set(r.st, env, args[1].s, r.v), r.v) :
                r \in {EVAL_p0(args[2], env, s)}} : TRUE

LetBindings_p0(pairs, newEnv, s) ==
    IF pairs = <<>> THEN Ret(s, MalNil)
    ELSE IF ~isMalSymbol(pairs[1]) THEN Throw(s, MalUnexpectedTokenType)
    ELSE CHOOSE one \in {IF ~r.ok THEN r
              ELSE LetBindings_p0(Tail(Tail(pairs)), newEnv,
                                  MalEnv_set(r.st, newEnv, pairs[1].s, r.v)) :
                r \in {EVAL_p0(pairs[2], newEnv, s)}} : TRUE

LET_p0(env, args, s) ==
    IF Len(args) # 2 THEN Throw(s, MalParametersError)
    ELSE IF ~isMalVector(args[1]) THEN Throw(s, MalUnexpectedTokenType)
    ELSE CHOOSE one \in {IF Len(args[1].xs) % 2 # 0 THEN Throw(n.st, MalUnexpectedLength)
              ELSE CHOOSE one \in {IF ~r.ok THEN r ELSE EVAL_p0(args[2], n.env, r.st) :
                          r \in {LetBindings_p0(args[1].xs, n.env, n.st)}} : TRUE :
                n \in {MalEnv_new(s, env, <<>>, <<>>)}} : TRUE

\* args.map(arg => EVAL(arg, env)) of part_000's DO, keeping the last result.
DoArgs_p0(args, env, s, last) ==
    IF args = <<>> THEN Ret(s, last)
    ELSE CHOOSE one \in {IF ~r.ok THEN r ELSE DoArgs_p0(Tail(args), env, r.st, r.v) :
                r \in {EVAL_p0(Head(args), env, s)}} : TRUE

DO_p0(env, args, s) ==
    IF Len(args) < 1 THEN Throw(s, MalMultipleParametersError)
    ELSE DoArgs_p0(args, env, s, MalNil)

IF_p0(env, args0, s) ==
    LET args == IF Len(args0) = 2 THEN Append(args0, MalNil) ELSE args0
    IN  IF Len(args) # 3 THEN Throw(s, MalParametersError)
        ELSE CHOOSE one \in {IF ~result.ok THEN result
                  ELSE IF isPositive(result.v) THEN EVAL_p0(args[2], env, result.st)
                  ELSE EVAL_p0(args[3], env, result.st) :
                    result \in {EVAL_p0(args[1], env, s)}} : TRUE

(***************************************************************************)
(* The session: GlobalEnv holds the built-ins and the bootstrap binding of *)
(* not; rep evaluates one form in GlobalEnv.                               *)
(***************************************************************************)
CoreStore ==
    [EmptyStore EXCEPT !.envs[RootEnv].data = [n \in CoreNames |-> MalNativeFunction(n)]]

\* The per-evaluation observations, cleared before each rep; log and calls
\* run on through the session.
Fresh(s) == [s EXCEPT !.depth = 0, !.maxDepth = 0, !.cur = 0, !.raised = 0]

\* (def! not (fn* [a] (if a false true)))
BootNot ==
    MalList(<<MalSymbol("def!"), MalSymbol("not"),
              MalList(<<MalSymbol("fn*"), MalVector(<<MalSymbol("a")>>),
                        MalList(<<MalSymbol("if"), MalSymbol("a"),
                                  MalBoolean(FALSE), MalBoolean(TRUE)>>)>>)>>)

GlobalEnv == Fresh(EVAL(BootNot, RootEnv, CoreStore).st)

\* rep of part_001 and of part_000 (READ and PRINT are not modelled: the
\* inputs are terms already).
rep(f, s) == EVAL(f, RootEnv, Fresh(s))

rep_p0(f, s) == EVAL_p0(f, RootEnv, Fresh(s))

(***************************************************************************)
(* The inputs of a session: scripts, each a sequence of forms handed to    *)
(* rep one after the other.                                                *)
(***************************************************************************)
S(x) == MalSymbol(x)

L(xs) == MalList(xs)

V(xs) == MalVector(xs)

N(k) == MalNumber(k)

T == MalBoolean(TRUE)

F == MalBoolean(FALSE)

Q(x) == L(<<S("quote"), x>>)

Def(name, x) == L(<<S("def!"), S(name), x>>)

Fn(params, body) == L(<<S("fn*"), L(params), body>>)

Throw7 == L(<<S("throw"), N(7)>>)

List12 == L(<<S("list"), N(1), N(2)>>)

\* The longest run of tail calls in the tail-call scripts.
MaxIter == 2

\* if: every condition with every pair of branches.
Conds == {T, F, MalNil, L(<<S("list")>>)}

Branches == {N(1), List12, S("u")}

IfForms ==
    {L(<<S("if"), c, a>>) : c \in Conds, a \in Branches}
        \cup {L(<<S("if"), c, a, b>>) : c \in Conds, a \in Branches, b \in Branches}

\* do: no, one or two arguments.
DoExprs == {N(1), Q(S("list")), List12, Def("a", N(2))}

DoForms ==
    {L(<<S("do")>>)} \cup {L(<<S("do"), e>>) : e \in DoExprs}
        \cup {L(<<S("do"), d, e>>) : d \in DoExprs, e \in DoExprs}

\* eval: in GlobalEnv, in a let* frame and in a function frame.
EvalForms ==
    {L(<<S("eval"), Q(S("x"))>>),
     L(<<S("eval"), Q(Def("b", N(3)))>>),
     L(<<S("let*"), L(<<S("x"), N(2)>>), L(<<S("eval"), Q(S("x"))>>)>>),
     L(<<S("let*"), L(<<S("y"), N(2)>>), L(<<S("eval"), Q(Def("b", N(3)))>>)>>),
     L(<<Fn(<<S("x")>>, L(<<S("eval"), Q(S("x"))>>)), N(2)>>),
     L(<<Fn(<<S("y")>>, L(<<S("eval"), L(<<S("list"), Q(S("def!")), Q(S("b")), S("y")>>)>>)),
         N(3)>>),
     L(<<S("eval")>>),
     L(<<S("eval"), List12>>)}

EvalScripts == {<<Def("x", N(1)), f, S("b")>> : f \in EvalForms}

\* Tail calls: g takes MaxIter flags and calls itself while the first is
\* true, shifting a false in; the call sits in the tail position named.
Params == [i \in 1..MaxIter |-> S("p" \o ToString(i))]

Shifted(name) == L(<<S(name)>> \o Tail(Params) \o <<F>>)

TailKinds == {"if", "let", "do", "body"}

TailBody(kind) ==
    CASE kind = "if" -> L(<<S("if"), Params[1], Shifted("g"), MalKeyword("done")>>)
      [] kind = "let" ->
            L(<<S("if"), Params[1],
                L(<<S("let*"), L(<<S("z"), N(1)>>), Shifted("g")>>),
                MalKeyword("done")>>)
      [] kind = "do" ->
            L(<<S("if"), Params[1], L(<<S("do"), N(1), Shifted("g")>>),
                MalKeyword("done")>>)
      [] kind = "body" ->
            L(<<S("if"), Params[1], Shifted("h"), MalKeyword("done")>>)

\* h's body is nothing but the call of g.
TailHelper == Def("h", Fn(Params, L(<<S("g")>> \o Params)))

TailCall(n) == L(<<S("g")>> \o [i \in 1..MaxIter |-> IF i <= n THEN T ELSE F])

\* g is called with one true flag, then two, up to MaxIter.
TailScripts ==
    {<<TailHelper, Def("g", Fn(Params, TailBody(k)))>> \o [n \in 1..MaxIter |-> TailCall(n)] :
        k \in TailKinds}

\* try*: bodies that throw and bodies that do not, well and ill formed
\* catch clauses.
TryBodies == {Throw7, L(<<S("throw"), List12>>), N(1), List12, S("u"),
              L(<<S("do"), Throw7>>), L(<<S("list"), Throw7>>)}

CatchBodies == {S("e"), N(2), L(<<S("list"), S("e")>>)}

TryForms ==
    {L(<<S("try*"), a, L(<<S("catch*"), S("e"), b>>)>>) : a \in TryBodies, b \in CatchBodies}
        \cup {L(<<S("try*"), N(1)>>),
              L(<<S("try*"), Throw7, N(2)>>),
              L(<<S("try*"), Throw7, L(<<>>)>>),
              L(<<S("try*"), Throw7, L(<<S("catch"), S("e"), S("e")>>)>>),
              L(<<S("try*"), Throw7, L(<<S("catch*"), S("e")>>)>>),
              L(<<S("try*"), Throw7, L(<<S("catch*"), N(1), N(2)>>)>>),
              L(<<S("let*"), L(<<S("e"), N(5)>>),
                  L(<<S("list"), L(<<S("try*"), Throw7, L(<<S("catch*"), S("e"), S("e")>>)>>),
                      S("e")>>)>>)}

TryScripts == {<<f, S("e")>> : f \in TryForms}

\* Errors thrown at some depth and caught nowhere.
ErrForms ==
    {Throw7, S("u"), Q(L(<<>>)), L(<<N(1), N(2)>>),
     L(<<S("list"), L(<<S("list"), Throw7>>)>>),
     L(<<S("if"), T, Throw7>>),
     L(<<S("if"), Throw7, N(1)>>),
     L(<<S("let*"), L(<<S("a"), Throw7>>), S("a")>>),
     L(<<S("let*"), L(<<S("a"), N(1)>>), L(<<S("throw"), S("a")>>)>>),
     L(<<S("do"), N(1), Throw7>>),
     L(<<Fn(<<S("x")>>, L(<<S("throw"), S("x")>>)), N(7)>>),
     L(<<S("list"), L(<<Fn(<<S("x")>>, L(<<S("if"), S("x"), L(<<S("throw"), S("x")>>)>>)),
                       N(7)>>)>>),
     Def("a", Throw7),
     L(<<S("quasiquote"), L(<<L(<<S("unquote"), Throw7>>)>>)>>),
     L(<<S("eval"), Q(Throw7)>>),
     L(<<S("try*"), Throw7, L(<<S("catch*"), S("e"), L(<<S("throw"), S("e")>>)>>)>>),
     L(<<S("try*"), Throw7, L(<<S("catch*"), S("e"), L(<<S("list"), S("u")>>)>>)>>)}

ErrScripts == {<<f>> : f \in ErrForms}

\* Macros: m reaching the head of a call form by its name, through a local
\* binding, and as the value of an expression.
Identity == Fn(<<S("x")>>, S("x"))

MacroForms ==
    {L(<<S("m"), List12>>),
     L(<<S("let*"), L(<<S("k"), S("m")>>), L(<<S("k"), List12>>)>>),
     L(<<L(<<S("if"), T, S("m")>>), List12>>),
     L(<<L(<<S("do"), S("m")>>), List12>>),
     L(<<Fn(<<S("k")>>, L(<<S("k"), List12>>)), S("m")>>),
     L(<<S("macroexpand"), L(<<S("m"), List12>>)>>),
     L(<<S("macroexpand"), L(<<S("f"), List12>>)>>),
     L(<<S("f"), List12>>)}

MacroScripts ==
    {<<Def("f", Identity), L(<<S("defmacro!"), S("m"), Identity>>), f>> : f \in MacroForms}
        \cup {<<Def("f", Identity), L(<<S("defmacro!"), S("m"), S("f")>>), f>> :
                f \in MacroForms}
        \cup {<<L(<<S("defmacro!"), S("m"), N(1)>>)>>, <<L(<<S("defmacro!"), N(1), Identity>>)>>,
              <<L(<<S("defmacro!"), S("m")>>)>>}

\* quasiquote: atoms, unquotes and splices, alone and inside lists and
\* vectors of one and two elements.
QQElems ==
    {N(1), S("c"), L(<<>>), L(<<S("unquote"), N(2)>>), L(<<S("unquote"), List12>>),
     L(<<S("splice-unquote"), List12>>), L(<<N(1), L(<<S("unquote"), N(2)>>)>>),
     V(<<N(1)>>), V(<<L(<<S("unquote"), N(2)>>)>>), V(<<S("unquote"), N(2)>>),
     V(<<L(<<S("splice-unquote"), List12>>)>>)}

QQTerms ==
    QQElems \cup {L(<<x>>) : x \in QQElems} \cup {V(<<x>>) : x \in QQElems}
        \cup {L(<<x, y>>) : x \in QQElems, y \in QQElems}
        \cup {V(<<x, y>>) : x \in QQElems, y \in QQElems}
        \cup {L(<<S("unquote")>>), L(<<S("unquote"), N(1), N(2)>>),
              L(<<L(<<S("splice-unquote")>>)>>)}

QQForms == {L(<<S("quasiquote"), x>>) : x \in QQTerms} \cup {L(<<S("quasiquote")>>)}

QQScripts == {<<f>> : f \in QQForms}

\* let*: binding sequences of every length to four, as a list and as a
\* vector, over expressions that see earlier bindings, GlobalEnv, or throw.
LetExprs == {N(1), S("a"), S("x"), L(<<S("list"), S("a")>>), Throw7}

LetBinds ==
    {<<>>, <<S("a")>>, <<N(1), N(2)>>}
        \cup {<<S("a"), d>> : d \in LetExprs}
        \cup {<<S("a"), d, S("b")>> : d \in LetExprs}
        \cup {<<S("a"), d, S("b"), e>> : d \in LetExprs, e \in LetExprs}
        \cup {<<S("a"), d, S("a"), e>> : d \in LetExprs, e \in LetExprs}

LetBodies == {L(<<S("list"), S("a"), S("b")>>), Def("c", S("a"))}

LetForms ==
    {L(<<S("let*"), L(b), e>>) : b \in LetBinds, e \in LetBodies}
        \cup {L(<<S("let*"), V(b), e>>) : b \in LetBinds, e \in LetBodies}
        \cup {L(<<S("let*"), L(<<S("a"), N(1)>>)>>),
              L(<<S("let*"), N(1), N(2)>>),
              L(<<S("let*"), L(<<S("a"), N(1)>>),
                  L(<<S("let*"), L(<<S("b"), S("a")>>), Def("x", S("b"))>>)>>)}

LetScripts == {<<Def("x", N(5)), Def("b", N(6)), f, S("c")>> : f \in LetForms}

\* Function application: closures over GlobalEnv and over a let* frame,
\* callers with bindings of their own, rest parameters, wrong arities.
FnDefs ==
    {Fn(<<S("a")>>, L(<<S("list"), S("a"), S("x")>>)),
     Fn(<<S("a")>>, S("y")),
     Fn(<<S("x")>>, S("x")),
     Fn(<<S("a"), S("&"), S("r")>>, L(<<S("list"), S("a"), S("r")>>)),
     Fn(<<>>, Def("w", N(4))),
     L(<<S("let*"), L(<<S("x"), N(8)>>), Fn(<<S("a")>>, L(<<S("list"), S("a"), S("x")>>))>>),
     L(<<S("fn*"), V(<<S("a"), S("b")>>), L(<<S("list"), S("b"), S("a")>>)>>)}

FnCalls ==
    {L(<<S("f"), N(2)>>), L(<<S("f")>>), L(<<S("f"), N(2), N(3)>>),
     L(<<S("f"), L(<<S("f"), N(2)>>)>>),
     L(<<S("let*"), L(<<S("y"), N(2), S("x"), N(3)>>), L(<<S("f"), S("y")>>)>>),
     L(<<Fn(<<S("a"), S("y")>>, L(<<S("f"), S("a")>>)), N(2), N(3)>>)}

FnScripts ==
    {<<Def("x", N(1)), Def("f", d), Def("x", N(5)), c, S("a")>> : d \in FnDefs, c \in FnCalls}

\* Parameter lists of fn*: every List and Vector of at most MaxParams
\* elements drawn from a symbol, the rest marker and a number, and terms that
\* are no sequential; the form stands at top level and inside a let* frame.
MaxParams == 3

ParamElems == {S("x"), S("&"), N(1)}

ParamSeqs == UNION {[1..n -> ParamElems] : n \in 0..MaxParams}

ParamTerms ==
    {L(xs) : xs \in ParamSeqs} \cup {V(xs) : xs \in ParamSeqs}
        \cup {N(1), S("x"), MalNil, MalHashMap(<<MalKeyword("k"), S("x")>>)}

FnBody == Def("z", N(1))

FnParamForm(P) == L(<<S("fn*"), P, FnBody>>)

InLet(f) == L(<<S("let*"), L(<<S("q"), N(1)>>), f>>)

FnParamForms == {FnParamForm(P) : P \in ParamTerms}

FnParamScripts == {<<f>> : f \in FnParamForms} \cup {<<InLet(f)>> : f \in FnParamForms}

Scripts001 ==
    {<<f>> : f \in IfForms \cup DoForms} \cup EvalScripts \cup TailScripts
        \cup TryScripts \cup ErrScripts \cup MacroScripts \cup QQScripts
        \cup LetScripts \cup FnScripts \cup FnParamScripts

\* The earlier revision knows def!, let*, do, if and fn* only.
Scripts000 ==
    {<<f>> : f \in IfForms \cup DoForms}
        \cup {<<Def("g", L(<<S("fn*"), V(Params), TailBody(k)>>)), TailCall(n)>> :
                k \in {"if", "do"}, n \in 1..MaxIter}

Revisions == {"part_000", "part_001"}

(***************************************************************************)
(* The term objects of src/yamajik/types.ts, where identity matters: an    *)
(* object has a class and a value, and the value of a List or Vector is a  *)
(* reference to an array of objects.  A heap holds the objects and the     *)
(* arrays; an object is its index in heap.objs.                            *)
(***************************************************************************)
Prim(k) == [kind |-> "prim", k |-> k]

ArrayRef(k) == [kind |-> "ref", k |-> k]

Obj(type, value) == [type |-> type, value |-> value]

\* valueEqual: this.type === another.type && this.value === another.value.
\* === on two array references is identity, on two numbers equality.
valueEqual(h, a, b) ==
    h.objs[a].type = h.objs[b].type /\ h.objs[a].value = h.objs[b].value

\* equal: this === another || this.valueEqual(another).
equal(h, a, b) == a = b \/ valueEqual(h, a, b)

EmptyHeap == [objs |-> <<>>, arrays |-> <<>>]

NotCompared == [a |-> 0, b |-> 0, r |-> FALSE, done |-> FALSE]

\* Heaps: three numbers (two of them equal in value), two arrays of at most
\* MaxSeqLen of them, and two sequentials s and t, each a List or a Vector;
\* s holds the first array, t the first or the second.
MaxSeqLen == 2

Numbers == <<Obj("MalNumber", Prim(1)), Obj("MalNumber", Prim(1)), Obj("MalNumber", Prim(2))>>

Arrays == UNION {[1..n -> 1..Len(Numbers)] : n \in 0..MaxSeqLen}

SeqTypes == {"MalList", "MalVector"}

Heaps ==
    {[objs |-> Numbers \o <<Obj(ts, ArrayRef(1)), Obj(tt, ArrayRef(rt))>>,
      arrays |-> <<a1, a2>>] :
        ts \in SeqTypes, tt \in SeqTypes, rt \in 1..2, a1 \in Arrays, a2 \in Arrays}

TypesSession ==
    /\ rev = "types.ts"
    /\ script = <<>>
    /\ form = MalNil
    /\ st = EmptyStore
    /\ pre = st
    /\ out = [ok |-> TRUE, v |-> MalNil]
    /\ hist = <<>>
    /\ heap \in Heaps
    /\ eq = NotCompared

Session ==
    /\ rev \in Revisions
    /\ script \in (IF rev = "part_001" THEN Scripts001 ELSE Scripts000)
    /\ heap = EmptyHeap
    /\ eq = NotCompared
    /\ form = MalNil
    /\ st = (IF rev = "part_001" THEN GlobalEnv ELSE CoreStore)
    /\ pre = st
    /\ out = [ok |-> TRUE, v |-> MalNil]
    /\ hist = <<>>

Init == Session \/ TypesSession

\* rep(str) of part_001 on the next form of the script.
Rep ==
    /\ rev = "part_001"
    /\ script # <<>>
    /\ \E r \in {rep(Head(script), st)} :
           /\ st' = r.st
           /\ out' = [ok |-> r.ok, v |-> r.v]
           /\ hist' = Append(hist, [form |-> Head(script), maxDepth |-> r.st.maxDepth])
    /\ form' = Head(script)
    /\ pre' = st
    /\ script' = Tail(script)
    /\ UNCHANGED <<rev, heap, eq>>

\* rep(str) of part_000 on the next form of the script.
Rep_p0 ==
    /\ rev = "part_000"
    /\ script # <<>>
    /\ \E r \in {rep_p0(Head(script), st)} :
           /\ st' = r.st
           /\ out' = [ok |-> r.ok, v |-> r.v]
           /\ hist' = Append(hist, [form |-> Head(script), maxDepth |-> r.st.maxDepth])
    /\ form' = Head(script)
    /\ pre' = st
    /\ script' = Tail(script)
    /\ UNCHANGED <<rev, heap, eq>>

\* a.equal(b) of types.ts on two objects of the heap.
Equal ==
    /\ rev = "types.ts"
    /\ ~eq.done
    /\ \E a \in DOMAIN heap.objs, b \in DOMAIN heap.objs :
           eq' = [a |-> a, b |-> b, r |-> equal(heap, a, b), done |-> TRUE]
    /\ UNCHANGED <<rev, script, form, pre, st, out, hist, heap>>

Next == Rep \/ Rep_p0 \/ Equal

Spec == Init /\ [][Next]_vars

(***************************************************************************)
(* Observations of a session, read off st.log (one entry per pass of an    *)
(* evaluator loop: the ast and env the pass starts with, and the           *)
(* invocation of EVAL it belongs to) and st.calls (one entry per           *)
(* invocation of EVAL: its caller, its arguments and its outcome).         *)
(***************************************************************************)
Passes == 1..Len(st.log)

Invocations == 1..Len(st.calls)

\* The pass the loop continued with after pass i, 0 when pass i returned
\* or threw.
NextPass(i) ==
    IF \E j \in Passes : j > i /\ st.log[j].inv = st.log[i].inv
    THEN CHOOSE j \in Passes :
            /\ j > i
            /\ st.log[j].inv = st.log[i].inv
            /\ \A k \in Passes : (k > i /\ k < j) => st.log[k].inv # st.log[i].inv
    ELSE 0

\* The first pass of invocation m.
FirstPass(m) ==
    CHOOSE j \in Passes : st.log[j].inv = m /\ \A k \in 1..(j - 1) : st.log[k].inv # m

\* The invocations of EVAL made by pass i itself.
Kids(i) ==
    {m \in Invocations :
        /\ st.calls[m].up = st.log[i].inv
        /\ FirstPass(m) > i
        /\ NextPass(i) # 0 => FirstPass(m) < NextPass(i)}

\* A set of invocations as the sequence in which they were made.
RECURSIVE InOrder(_)
InOrder(set) ==
    IF set = {} THEN <<>>
    ELSE CHOOSE seq \in {<<m>> \o InOrder(set \ {m}) :
                            m \in {x \in set : \A y \in set : x <= y}} : TRUE

\* The asts, and the envs, pass i handed to EVAL, in order.
KidAsts(i) == [k \in 1..Cardinality(Kids(i)) |-> st.calls[InOrder(Kids(i))[k]].ast]

KidEnvs(i) == [k \in 1..Cardinality(Kids(i)) |-> st.calls[InOrder(Kids(i))[k]].env]

KidValues(i) == [k \in 1..Cardinality(Kids(i)) |-> st.calls[InOrder(Kids(i))[k]].v]

\* ast is a list headed by the symbol name, with argc arguments.
IsForm(ast, name, argc) ==
    isMalList(ast) /\ Len(ast.xs) = argc + 1 /\ ast.xs[1] = MalSymbol(name)

\* C1: wherever a pass evaluates (eval x), x is evaluated once in the env of
\* the pass, and the loop continues with the term x yielded in the root
\* environment, whatever the env of the pass is.
C1_EvalContinuesInRoot ==
    rev = "part_001" =>
        \A i \in Passes :
            (IsForm(st.log[i].ast, Symbols.Eval, 1) /\ NextPass(i) # 0) =>
                /\ KidAsts(i) = <<st.log[i].ast.xs[2]>>
                /\ KidEnvs(i) = <<st.log[i].env>>
                /\ st.log[NextPass(i)].ast = KidValues(i)[1]
                /\ st.log[NextPass(i)].env = RootEnv

\* C2: wherever a pass evaluates (do e1 ... en), it hands e1 .. e(n-1) to
\* EVAL, in order and once each, and the loop continues in the same env
\* with the unevaluated form en.
C2_DoContinuesWithLastForm ==
    rev = "part_001" =>
        \A i \in Passes : \A n \in 1..3 :
            (IsForm(st.log[i].ast, Symbols.Do, n) /\ NextPass(i) # 0) =>
                /\ KidAsts(i) = SubSeq(st.log[i].ast.xs, 2, n)
                /\ st.log[NextPass(i)].ast = st.log[i].ast.xs[n + 1]
                /\ st.log[NextPass(i)].env = st.log[i].env

\* The branch of an if form chosen by the value of its condition.
Branch(ast, value) ==
    IF isPositive(value) THEN ast.xs[3]
    ELSE IF Len(ast.xs) = 4 THEN ast.xs[4] ELSE MalNil

\* C3: in both revisions, wherever a pass evaluates (if c a) or (if c a b),
\* it hands c and nothing else to EVAL, and the loop continues in the same
\* env with the unevaluated branch the value of c chooses.
C3_IfContinuesWithBranch ==
    \A i \in Passes :
        (/\ IsForm(st.log[i].ast, Symbols.If, 2) \/ IsForm(st.log[i].ast, Symbols.If, 3)
         /\ NextPass(i) # 0) =>
            /\ KidAsts(i) = <<st.log[i].ast.xs[2]>>
            /\ st.log[NextPass(i)].ast = Branch(st.log[i].ast, KidValues(i)[1])
            /\ st.log[NextPass(i)].env = st.log[i].env

\* C4: the greatest number of invocations of EVAL active at once while a
\* call of the self-tail-recursive g runs is the same for every number of
\* iterations, whichever tail position (body, if, let*, do) holds the call.
C4_TailCallDepthConstant ==
    rev = "part_001" =>
        \A i \in 1..Len(hist) : \A j \in 1..Len(hist) :
            (\E n \in 1..MaxIter : \E m \in 1..MaxIter :
                hist[i].form = TailCall(n) /\ hist[j].form = TailCall(m)) =>
                    hist[i].maxDepth = hist[j].maxDepth

\* ast is (try* A (catch* name B)).
IsTry(ast) ==
    /\ IsForm(ast, Symbols.Try, 2)
    /\ IsForm(ast.xs[3], Symbols.Catch, 2)
    /\ isMalSymbol(ast.xs[3].xs[2])

\* C5: wherever a pass evaluates (try* A (catch* name B)), A is evaluated in
\* the env of the pass; if that raises nothing the form's result is A's
\* value and B is not evaluated; if it raises an error carrying v, B is
\* evaluated in a new child of env whose one binding is name to v itself,
\* and the form's result is B's value.
C5_CatchBindsThrownTerm ==
    rev = "part_001" =>
        \A i \in Passes :
            IsTry(st.log[i].ast) =>
                LET ast == st.log[i].ast
                    kids == InOrder(Kids(i))
                    me == st.calls[st.log[i].inv]
                    A == st.calls[kids[1]]
                    B == st.calls[kids[2]]
                IN  /\ Len(kids) >= 1
                    /\ A.ast = ast.xs[2]
                    /\ A.env = st.log[i].env
                    /\ A.ok => (Len(kids) = 1 /\ me.ok /\ me.v = A.v)
                    /\ (~A.ok /\ isMalError(A.v)) =>
                            /\ Len(kids) = 2
                            /\ B.ast = ast.xs[3].xs[3]
                            /\ B.env # st.log[i].env
                            /\ st.envs[B.env].outer = st.log[i].env
                            /\ st.envs[B.env].data = (ast.xs[3].xs[2].s :> ErrorValue(A.v))
                            /\ B.ok => (me.ok /\ me.v = B.v)

\* The last pass of invocation m.
LastPass(m) ==
    CHOOSE j \in Passes : st.log[j].inv = m /\ \A k \in Passes : k > j => st.log[k].inv # m

\* The trace of the error invocation m re-throws, as it was when the error
\* reached m: the trace its last pass's failed call re-threw it with, or
\* the empty trace of an error raised by m's own pass.
TraceReaching(m) ==
    LET kids == InOrder(Kids(LastPass(m)))
    IN  IF kids # <<>> /\ ~st.calls[kids[Len(kids)]].ok
        THEN ErrorTrace(st.calls[kids[Len(kids)]].v)
        ELSE <<>>

\* C6: every invocation of EVAL that an error leaves re-throws it with the
\* trace it arrived with, unchanged, plus one entry: the ast its loop was
\* evaluating when the error was raised.
C6_TraceHoldsCurrentAst ==
    rev = "part_001" =>
        \A m \in Invocations :
            (st.calls[m].done /\ ~st.calls[m].ok /\ isMalError(st.calls[m].v)) =>
                ErrorTrace(st.calls[m].v)
                    = Append(TraceReaching(m), st.log[LastPass(m)].ast)

\* C7: the call path at the end of the evaluator loop has never applied a
\* Function whose isMacro is set.
C7_NoMacroInApplication == rev = "part_001" => st.macroApplied = 0

\* The reference rewrite of quasiquote, on every sequential.
RECURSIVE RefQuasiquote(_)
RefQuasiquote(x) ==
    IF ~isMalSequential(x) \/ x.xs = <<>> THEN MalList(<<MalSymbol(Symbols.Quote), x>>)
    ELSE IF Len(x.xs) = 2 /\ x.xs[1] = MalSymbol(Symbols.Unquote) THEN x.xs[2]
    ELSE IF /\ isMalSequential(x.xs[1])
            /\ Len(x.xs[1].xs) = 2
            /\ x.xs[1].xs[1] = MalSymbol(Symbols.SpliceUnquote)
         THEN MalList(<<MalSymbol(Symbols.Concat), x.xs[1].xs[2],
                        RefQuasiquote(MalList(Tail(x.xs)))>>)
    ELSE MalList(<<MalSymbol(Symbols.Cons), RefQuasiquote(x.xs[1]),
                   RefQuasiquote(MalList(Tail(x.xs)))>>)

\* x holds no unquote and no splice-unquote symbol.
RECURSIVE NoUnquote(_)
NoUnquote(x) ==
    /\ x # MalSymbol(Symbols.Unquote)
    /\ x # MalSymbol(Symbols.SpliceUnquote)
    /\ \A k \in 1..Len(x.xs) : NoUnquote(x.xs[k])

\* C8: wherever a pass evaluates (quasiquote x) and QUASIQUOTE returns, the
\* loop continues with the reference rewrite of x; and (quasiquote x) for
\* an x without unquote and splice-unquote evaluates to x.
C8_QuasiquoteIsReference ==
    rev = "part_001" =>
        /\ \A i \in Passes :
                (IsForm(st.log[i].ast, Symbols.Quasiquote, 1) /\ NextPass(i) # 0) =>
                    st.log[NextPass(i)].ast = RefQuasiquote(st.log[i].ast.xs[2])
        /\ (IsForm(form, Symbols.Quasiquote, 1) /\ NoUnquote(form.xs[2])) =>
                (out.ok /\ out.v = form.xs[2])

\* ast is (let* B body) with B a sequential.
IsLet(ast) == IsForm(ast, Symbols.Let, 2) /\ isMalSequential(ast.xs[2])

\* Frame e is new to pass i: neither pass i nor any pass before it ran in e.
FreshAt(e, i) == \A j \in 1..i : st.log[j].env # e

\* What C9 states of the let* form pass i evaluates.
LetPassOk(i) ==
    LET ast == st.log[i].ast
        B == ast.xs[2].xs
        kids == InOrder(Kids(i))
        me == st.calls[st.log[i].inv]
        child == st.calls[kids[1]].env
    IN  IF Len(B) % 2 # 0
        THEN /\ kids = <<>>
             /\ NextPass(i) = 0
             /\ ~me.ok
             /\ ErrorValue(me.v) = ErrorValue(MalUnexpectedLength)
        ELSE /\ Len(kids) <= Len(B) \div 2
             /\ \A k \in 1..Len(kids) :
                    /\ st.calls[kids[k]].ast = B[2 * k]
                    /\ st.calls[kids[k]].env = child
                    /\ k < Len(kids) => st.calls[kids[k]].ok
                    /\ (/\ st.calls[kids[k]].ok
                        /\ \A l \in (k + 1)..Len(kids) :
                                st.calls[kids[l]].ok => B[2 * l - 1] # B[2 * k - 1])
                        => st.envs[child].data[B[2 * k - 1].s] = st.calls[kids[k]].v
             /\ kids # <<>> => (st.envs[child].outer = st.log[i].env /\ FreshAt(child, i))
             /\ NextPass(i) # 0 <=>
                    (Len(kids) = Len(B) \div 2 /\ \A k \in 1..Len(kids) : st.calls[kids[k]].ok)
             /\ NextPass(i) # 0 =>
                    /\ st.log[NextPass(i)].ast = ast.xs[3]
                    /\ st.envs[st.log[NextPass(i)].env].outer = st.log[i].env
                    /\ FreshAt(st.log[NextPass(i)].env, i)
                    /\ kids # <<>> => st.log[NextPass(i)].env = child

\* C9: wherever a pass evaluates (let* B body), the binding expressions of
\* B are evaluated in order, each in one new child of the env of the pass
\* and bound there, and the loop continues with body in that child; with
\* an odd B it fails with no expression evaluated; and a let* form handed
\* to rep leaves every frame that existed before it as it was.
C9_LetStarInChildFrame ==
    rev = "part_001" =>
        /\ \A i \in Passes : IsLet(st.log[i].ast) => LetPassOk(i)
        /\ IsLet(form) => \A e \in 1..Len(pre.envs) : st.envs[e] = pre.envs[e]

\* A let* whose second binding reads the first has run to its value, and
\* the b of GlobalEnv is still 6.
C9_Witness ==
    /\ rev = "part_001"
    /\ form = L(<<S("let*"), L(<<S("a"), N(1), S("b"), L(<<S("list"), S("a")>>)>>),
                  L(<<S("list"), S("a"), S("b")>>)>>)
    /\ out = [ok |-> TRUE, v |-> MalList(<<N(1), MalList(<<N(1)>>)>>)]
    /\ st.envs[RootEnv].data["b"] = N(6)

\* The head symbols the switch of EVAL_NOT_CATCH knows.
SpecialForms ==
    {Symbols.Def, Symbols.Let, Symbols.Do, Symbols.If, Symbols.Fn, Symbols.Eval,
     Symbols.Quote, Symbols.Quasiquote, Symbols.Defmacro, Symbols.Macroexpand,
     Symbols.Try}

\* Pass i evaluates a call form: a non-empty list whose head is no special
\* form and names no macro.
IsCall(i) ==
    /\ isMalList(st.log[i].ast)
    /\ st.log[i].ast.xs # <<>>
    /\ ~(isMalSymbol(st.log[i].ast.xs[1]) /\ st.log[i].ast.xs[1].s \in SpecialForms)
    /\ ~isMacroFunction(st.log[i].env, st.log[i].ast, st)

\* What C10 states of the call form pass i evaluates.
CallPassOk(i) ==
    LET ast == st.log[i].ast
        kids == InOrder(Kids(i))
        f == st.fns[st.calls[kids[1]].v.n]
        new == st.log[NextPass(i)].env
        bound == MalEnv_bind(<<>>, f.params.xs, Tail(KidValues(i)))
    IN  /\ Len(kids) <= Len(ast.xs)
        /\ \A k \in 1..Len(kids) :
                /\ st.calls[kids[k]].ast = ast.xs[k]
                /\ st.calls[kids[k]].env = st.log[i].env
                /\ k < Len(kids) => st.calls[kids[k]].ok
        /\ (/\ Len(kids) = Len(ast.xs)
            /\ \A k \in 1..Len(kids) : st.calls[kids[k]].ok
            /\ isMalFunction(st.calls[kids[1]].v)) =>
                /\ NextPass(i) # 0 <=> bound.ok
                /\ NextPass(i) # 0 =>
                        /\ st.log[NextPass(i)].ast = f.ast
                        /\ st.envs[new].outer = f.env
                        /\ FreshAt(new, i)
                        /\ new # f.env
                        /\ \A name \in DOMAIN bound.data :
                                st.envs[new].data[name] = bound.data[name]

\* C10: wherever a pass evaluates a call form whose head yields a user
\* Function f, every element is evaluated once, in order, in the env of the
\* pass, and the loop continues with f's body in a fresh frame that holds
\* the parameters and whose parent is the env f holds; the env f holds is
\* the env of the pass that evaluated its fn* form; and a call form handed
\* to rep leaves the bindings of every frame that existed before it as
\* they were.
C10_ApplyInFrameOnCapturedEnv ==
    rev = "part_001" =>
        /\ \A i \in Passes : IsCall(i) => CallPassOk(i)
        /\ \A i \in Passes :
                (/\ IsForm(st.log[i].ast, Symbols.Fn, 2)
                 /\ st.calls[st.log[i].inv].ok
                 /\ NextPass(i) = 0) =>
                    /\ isMalFunction(st.calls[st.log[i].inv].v)
                    /\ st.fns[st.calls[st.log[i].inv].v.n].env = st.log[i].env
                    /\ st.fns[st.calls[st.log[i].inv].v.n].ast = st.log[i].ast.xs[3]
        /\ form \in FnCalls => \A e \in 1..Len(pre.envs) : st.envs[e] = pre.envs[e]

\* f, made in a let* frame where x is 8, is called from a let* frame where
\* x is 3 and y is 2, while the x of GlobalEnv is 5: its body sees x as 8.
C10_Witness ==
    /\ rev = "part_001"
    /\ form = L(<<S("let*"), L(<<S("y"), N(2), S("x"), N(3)>>), L(<<S("f"), S("y")>>)>>)
    /\ out = [ok |-> TRUE, v |-> MalList(<<N(2), N(8)>>)]
    /\ st.envs[RootEnv].data["x"] = N(5)

\* C11: (fn* P body) returns a new non-macro Function exactly when P is a
\* sequential of Symbols whose every & stands at index len(P) - 2; for any
\* other P the form fails, with MalInvalidRestParameter when P is a
\* sequential of Symbols with a misplaced &, no Function is created, body
\* is not evaluated and no environment frame that existed is changed (a
\* frame the enclosing let* created holds its own binding only).
IsFnParamForm(f) == f \in FnParamForms \/ \E g \in FnParamForms : f = InLet(g)

ParamsOf(f) == IF f \in FnParamForms THEN f.xs[2] ELSE f.xs[3].xs[2]

AllSymbols(P) == isMalSequential(P) /\ \A i \in 1..Len(P.xs) : P.xs[i].t = "sym"

RestInPlace(P) == \A i \in 1..Len(P.xs) : P.xs[i] = S("&") => i - 1 = Len(P.xs) - 2

ValidParams(P) == AllSymbols(P) /\ RestInPlace(P)

FnConstructed ==
    /\ out.ok
    /\ out.v.t = "fn"
    /\ Len(st.fns) = Len(pre.fns) + 1
    /\ out.v.n = Len(st.fns)
    /\ ~st.fns[out.v.n].isMacro
    /\ st.fns[out.v.n].ast = FnBody
    /\ st.fns[out.v.n].params = ParamsOf(form)

FnRejected ==
    /\ ~out.ok
    /\ st.fns = pre.fns
    /\ \A i \in 1..Len(st.log) : st.log[i].ast # FnBody
    /\ \A e \in 1..Len(pre.envs) : st.envs[e] = pre.envs[e]
    /\ \A e \in (Len(pre.envs) + 1)..Len(st.envs) : DOMAIN st.envs[e].data = {"q"}
    /\ (AllSymbols(ParamsOf(form)) =>
            ErrorValue(out.v) = MalString("MalInvalidRestParameter"))

C11_FnChecksParameters ==
    (rev = "part_001" /\ IsFnParamForm(form)) =>
        IF ValidParams(ParamsOf(form)) THEN FnConstructed ELSE FnRejected

C11_Witness ==
    /\ rev = "part_001"
    /\ form = InLet(FnParamForm(V(<<S("x"), S("&")>>)))
    /\ ~out.ok
    /\ ErrorValue(out.v) = MalString("MalInvalidRestParameter")
    /\ Len(st.envs) = Len(pre.envs) + 1

\* C12: for two sequentials s and t, each a List or a Vector, s.equal(t) is
\* true exactly when they have the same length and their elements are
\* pairwise equal under equal, whichever objects and variants they are.
isSeqObj(h, a) == h.objs[a].type \in SeqTypes

ElementsOf(h, a) == h.arrays[h.objs[a].value.k]

PairwiseEqual(h, a, b) ==
    /\ Len(ElementsOf(h, a)) = Len(ElementsOf(h, b))
    /\ \A i \in 1..Len(ElementsOf(h, a)) :
           equal(h, ElementsOf(h, a)[i], ElementsOf(h, b)[i])

C12_SequentialEqualIsStructural ==
    (eq.done /\ isSeqObj(heap, eq.a) /\ isSeqObj(heap, eq.b)) =>
        (eq.r <=> PairwiseEqual(heap, eq.a, eq.b))

\* C13: after (def! f (fn* (x) x)) and (defmacro! m f), the Function bound
\* to f is still no macro, and the call (f (list 1 2)) evaluates its
\* argument and is handled by general application.
DefmacroOfHeld == L(<<S("defmacro!"), S("m"), S("f")>>)

CallOfHeld == L(<<S("f"), List12>>)

AfterDefmacroOfHeld ==
    /\ rev = "part_001"
    /\ Len(hist) = 3
    /\ hist[2].form = DefmacroOfHeld
    /\ form = CallOfHeld

ArgumentEvaluated == \E i \in 1..Len(st.calls) : st.calls[i].ast = List12

C13_DefmacroMarksNewBindingOnly ==
    AfterDefmacroOfHeld =>
        /\ ~st.fns[MalEnv_get(st, RootEnv, "f").v.n].isMacro
        /\ ArgumentEvaluated

====
